---- MODULE Spec2Model ----
(***************************************************************************)
(* A model of the Chord ring of src/Chord/chord.py: the membership list,   *)
(* the successor / predecessor links, the finger tables, the per-node      *)
(* storage and the routing, data and membership operations of ChordRing.   *)
(***************************************************************************)
EXTENDS Integers, Sequences, FiniteSets, TLC

\* ------------------------------------------------------------------------
\* Bounds of the model
\* ------------------------------------------------------------------------
M == 3            \* ring width m: identifiers are 0 .. 2^M - 1
MaxNodes == 3     \* at most this many ring members at a time
MaxRecords == 2   \* at most this many records stored in the whole ring
NumNames == 3     \* logical names (titles) are 1 .. NumNames
NumValues == 2    \* field values are 1 .. NumValues

\* Python's None (an unset node reference, an absent result)
None == -1

Ids == 0 .. (2^M - 1)
Names == 1 .. NumNames
Fields == {"rating"}
Values == 1 .. NumValues
\* a record is a mutable mapping from field names to values
RecordSet == [Fields -> Values]

SeqToSet(s) == {s[i] : i \in 1 .. Len(s)}

\* chord_hash: sha1(str(value)) mod 2^m.  SHA-1 is replaced by a fixed
\* arithmetic scrambling, which keeps what the ring relies on: a deterministic
\* many-to-one map from names into [0, 2^m) (names 1 and 3 collide).
chord_hash(value, m) == (6 * value * value + 7) % (2^m)

\* ------------------------------------------------------------------------
\* Per-node storage (BPlusTree of module b_tree, which is not part of the
\* sources at hand; modelled from the StorageBackend interface of the design)
\* ------------------------------------------------------------------------
EmptyTree == [k \in Ids |-> <<>>]
BTInsert(bt, record, key) == [bt EXCEPT ![key] = Append(@, record)]
BTSearchKey(bt, key) == bt[key]
BTDelete(bt, key) == [bt EXCEPT ![key] = <<>>]

RECURSIVE ItemsFrom(_, _, _)
ItemsFrom(bt, k, j) ==
    IF k > 2^M - 1 THEN <<>>
    ELSE IF j > Len(bt[k]) THEN ItemsFrom(bt, k + 1, 1)
    ELSE <<(<<k, bt[k][j]>>)>> \o ItemsFrom(bt, k, j + 1)
\* get_all_items: every (key, record) pair, by ascending key
BTGetAllItems(bt) == ItemsFrom(bt, 0, 1)

\* ------------------------------------------------------------------------
\* Helpers
\* ------------------------------------------------------------------------
\* a variant of _in_interval: the ordinary range test only, no wrap
InIntervalLinear(key, start, end) == start < key /\ key <= end

\* a variant of _in_interval: the range test is chosen by start <= end, so
\* that the arc from a point to itself is empty
InIntervalEmptyArc(key, start, end) ==
    IF start <= end
    THEN start < key /\ key <= end
    ELSE key > start \/ key <= end

\* _in_interval: (start, end] in circular space
InInterval(key, start, end) ==
    IF start < end
    THEN start < key /\ key <= end
    ELSE key > start \/ key <= end

\* _update_links: successor / predecessor of every member from its index
UpdateLinks(ns) ==
    LET n == Len(ns) IN
    [successor   |-> [v \in SeqToSet(ns) |->
                        LET i == CHOOSE j \in 1 .. n : ns[j] = v
                        IN ns[(i % n) + 1]],
     predecessor |-> [v \in SeqToSet(ns) |->
                        LET i == CHOOSE j \in 1 .. n : ns[j] = v
                        IN ns[((i - 2) % n) + 1]]]

\* a variant of the sort: the list is left in append order
SortByIdOmitted(s) == s

\* list.sort(key = node_id), as an insertion sort
RECURSIVE SortById(_)
SortById(s) ==
    IF Len(s) <= 1 THEN s
    ELSE LET rest == SortById(SubSeq(s, 1, Len(s) - 1))
             x == s[Len(s)]
             lo == SelectSeq(rest, LAMBDA y : y <= x)
             hi == SelectSeq(rest, LAMBDA y : y > x)
         IN lo \o <<x>> \o hi

\* ------------------------------------------------------------------------
\* Routing
\* ------------------------------------------------------------------------
RECURSIVE LinearFrom(_, _, _)
LinearFrom(ns, key, i) ==
    IF i > Len(ns) THEN ns[1]
    ELSE IF key <= ns[i] THEN ns[i]
    ELSE LinearFrom(ns, key, i + 1)
\* find_successor_linear: first node of the list with key <= id, else nodes[0]
FindSuccessorLinear(ns, key) == LinearFrom(ns, key, 1)

\* a variant of the finger scan: the first non-empty finger is returned,
\* whether or not it lies between node and key
RECURSIVE FingerScanNoArc(_, _, _, _)
FingerScanNoArc(ft, node, key, i) ==
    IF i < 0 THEN node
    ELSE IF ft[i] # None THEN ft[i]
    ELSE FingerScanNoArc(ft, node, key, i - 1)

\* a variant of the finger scan: the table is scanned from index 0 upwards,
\* so the qualifying finger of the lowest index is returned
FingerScanAscending(ft, node, key, i) ==
    LET Q == {j \in 0 .. i : ft[j] # None /\ InInterval(ft[j], node, key)}
    IN IF Q = {} THEN node
       ELSE ft[CHOOSE j \in Q : \A k \in Q : j <= k]

RECURSIVE FingerScan(_, _, _, _)
FingerScan(ft, node, key, i) ==
    IF i < 0 THEN node
    ELSE IF ft[i] # None /\ InInterval(ft[i], node, key) THEN ft[i]
    ELSE FingerScan(ft, node, key, i - 1)
\* closest_preceding_finger: scan of node.finger from index m-1 down to 0
ClosestPrecedingFinger(r, node, key) ==
    FingerScan(r.finger[node], node, key, r.m - 1)

\* max_steps = max(4, len(nodes) * 4)
MaxSteps(ns) == IF Len(ns) * 4 > 4 THEN Len(ns) * 4 ELSE 4

\* a variant of the routing loop: the node at hand is returned, instead of
\* its successor, when key lies in (curr, succ]
RECURSIVE FSLoopReturnsCurr(_, _, _, _)
FSLoopReturnsCurr(r, key, curr, hops) ==
    IF key = curr
    THEN [node |-> curr, hops |-> hops, fallback |-> FALSE]
    ELSE LET succ == r.successor[curr] IN
         IF InInterval(key, curr, succ)
         THEN [node |-> curr, hops |-> hops + 1, fallback |-> FALSE]
         ELSE LET cpf == ClosestPrecedingFinger(r, curr, key)
                  nxt == IF cpf = None \/ cpf = curr THEN succ ELSE cpf
              IN IF hops + 1 > MaxSteps(r.nodes)
                 THEN [node |-> FindSuccessorLinear(r.nodes, key),
                       hops |-> hops + 1, fallback |-> TRUE]
                 ELSE FSLoopReturnsCurr(r, key, nxt, hops + 1)

\* a variant of the routing loop: a finger scan that finds nothing keeps the
\* node at hand (no fall back to the successor), and the hop budget is
\* twice max_steps
RECURSIVE FSLoopLateBudget(_, _, _, _)
FSLoopLateBudget(r, key, curr, hops) ==
    IF key = curr
    THEN [node |-> curr, hops |-> hops, fallback |-> FALSE]
    ELSE LET succ == r.successor[curr] IN
         IF InInterval(key, curr, succ)
         THEN [node |-> succ, hops |-> hops + 1, fallback |-> FALSE]
         ELSE LET cpf == ClosestPrecedingFinger(r, curr, key)
                  nxt == IF cpf = None THEN succ ELSE cpf
              IN IF hops + 1 > 2 * MaxSteps(r.nodes)
                 THEN [node |-> FindSuccessorLinear(r.nodes, key),
                       hops |-> hops + 1, fallback |-> TRUE]
                 ELSE FSLoopLateBudget(r, key, nxt, hops + 1)

\* a variant of the routing loop: the final hop to the successor is not
\* counted
RECURSIVE FSLoopNoFinalHop(_, _, _, _)
FSLoopNoFinalHop(r, key, curr, hops) ==
    IF key = curr
    THEN [node |-> curr, hops |-> hops, fallback |-> FALSE]
    ELSE LET succ == r.successor[curr] IN
         IF InInterval(key, curr, succ)
         THEN [node |-> succ, hops |-> hops, fallback |-> FALSE]
         ELSE LET cpf == ClosestPrecedingFinger(r, curr, key)
                  nxt == IF cpf = None \/ cpf = curr THEN succ ELSE cpf
              IN IF hops + 1 > MaxSteps(r.nodes)
                 THEN [node |-> FindSuccessorLinear(r.nodes, key),
                       hops |-> hops + 1, fallback |-> TRUE]
                 ELSE FSLoopNoFinalHop(r, key, nxt, hops + 1)

\* the loop of find_successor, from node curr with hops hops so far
RECURSIVE FSLoop(_, _, _, _)
FSLoop(r, key, curr, hops) ==
    IF key = curr
    THEN [node |-> curr, hops |-> hops, fallback |-> FALSE]
    ELSE LET succ == r.successor[curr] IN
         IF InInterval(key, curr, succ)
         THEN [node |-> succ, hops |-> hops + 1, fallback |-> FALSE]
         ELSE LET cpf == ClosestPrecedingFinger(r, curr, key)
                  nxt == IF cpf = None \/ cpf = curr THEN succ ELSE cpf
              IN IF hops + 1 > MaxSteps(r.nodes)
                 THEN [node |-> FindSuccessorLinear(r.nodes, key),
                       hops |-> hops + 1, fallback |-> TRUE]
                 ELSE FSLoop(r, key, nxt, hops + 1)

\* find_successor(key, start_node) on ring r = [nodes, successor,
\* predecessor, finger, m]; returns (node, hops) and, for the analysis,
\* whether the linear-scan fallback produced the result
FindSuccessor(r, key, start_node) ==
    IF r.nodes = <<>>
    THEN [node |-> None, hops |-> 0, fallback |-> FALSE]
    ELSE FSLoop(r, key, IF start_node = None THEN r.nodes[1] ELSE start_node, 0)

\* ------------------------------------------------------------------------
\* Finger maintenance
\* ------------------------------------------------------------------------
\* a variant of init_finger_table: the start of finger i is id + i + 1
\* instead of id + 2^i
InitFingerTableLinear(ns, m, node) ==
    [i \in 0 .. (m - 1) |-> FindSuccessorLinear(ns, (node + i + 1) % (2^m))]

\* a variant of init_finger_table: the start of a finger is not reduced
\* modulo 2^m
InitFingerTableNoWrap(ns, m, node) ==
    [i \in 0 .. (m - 1) |-> FindSuccessorLinear(ns, node + 2^i)]

\* init_finger_table: finger[i] = linear successor of (id + 2^i) mod 2^m
InitFingerTable(ns, m, node) ==
    [i \in 0 .. (m - 1) |-> FindSuccessorLinear(ns, (node + 2^i) % (2^m))]

\* fix_all_fingers
FixAllFingers(ns, m) == [v \in SeqToSet(ns) |-> InitFingerTable(ns, m, v)]

\* ------------------------------------------------------------------------
\* State
\* ------------------------------------------------------------------------
VARIABLES
    nodes,        \* ChordRing.nodes: the membership list (node ids, in list order)
    successor,    \* ChordNode.successor of every member
    predecessor,  \* ChordNode.predecessor of every member
    finger,       \* ChordNode.finger of every member: index 0 .. m-1 -> id or None
    btree,        \* ChordNode.btree of every member: key -> list of records
    last          \* the last public call: its arguments, what it returned or
                  \* raised, and the find_successor calls it made

vars == <<nodes, successor, predecessor, finger, btree, last>>

Members == SeqToSet(nodes)

\* the ring as the routing code sees it
Ring == [nodes |-> nodes, successor |-> successor, predecessor |-> predecessor,
         finger |-> finger, m |-> M]

\* what a caller may pass as start_node: nothing, or a node of the ring
StartNodes == {None} \cup Members

NoRecord == [f \in Fields |-> 0]

\* one find_successor call: its arguments, the ring it ran on, its result
Call(r, key, start_node) ==
    LET res == FindSuccessor(r, key, start_node) IN
    [key |-> key, start |-> start_node, ring |-> r,
     node |-> res.node, hops |-> res.hops, fallback |-> res.fallback]

Outcome(op, arg, start_node) ==
    [op |-> op, arg |-> arg, start |-> start_node, rec |-> NoRecord,
     ok |-> TRUE, node |-> None, hops |-> 0, moved |-> 0, records |-> <<>>,
     err |-> "", calls |-> <<>>]

RECURSIVE SumLen(_, _)
SumLen(bt, k) == IF k > 2^M - 1 THEN 0 ELSE Len(bt[k]) + SumLen(bt, k + 1)
\* number of records a node stores
Count(bt) == SumLen(bt, 0)

RECURSIVE TotalOver(_, _)
TotalOver(bts, S) ==
    IF S = {} THEN 0
    ELSE LET v == CHOOSE x \in S : TRUE
         IN Count(bts[v]) + TotalOver(bts, S \ {v})
\* number of records stored in the whole ring
TotalRecords == TotalOver(btree, Members)

Init ==
    /\ nodes = <<>>
    /\ successor = <<>>
    /\ predecessor = <<>>
    /\ finger = <<>>
    /\ btree = <<>>
    /\ last = Outcome("init", 0, None)

\* ------------------------------------------------------------------------
\* Routing and data operations
\* ------------------------------------------------------------------------
\* a public find_successor(key, start_node) call
Route(key, start_node) ==
    /\ LET c == Call(Ring, key, start_node) IN
       last' = [Outcome("find_successor", key, start_node) EXCEPT
                   !.node = c.node, !.hops = c.hops, !.calls = <<c>>]
    /\ UNCHANGED <<nodes, successor, predecessor, finger, btree>>

\* the body of insert(key_int, record, start_node); a None node has no
\* btree attribute, so the call raises AttributeError on an empty ring
InsertBody(op, arg, key_int, record, start_node) ==
    LET c == Call(Ring, key_int, start_node) IN
    IF c.node = None
    THEN /\ last' = [Outcome(op, arg, start_node) EXCEPT
                        !.rec = record, !.ok = FALSE, !.err = "AttributeError",
                        !.calls = <<c>>]
         /\ UNCHANGED btree
    ELSE /\ btree' = [btree EXCEPT ![c.node] = BTInsert(@, record, key_int)]
         /\ last' = [Outcome(op, arg, start_node) EXCEPT
                        !.rec = record, !.node = c.node, !.hops = c.hops,
                        !.calls = <<c>>]

Insert(key_int, record, start_node) ==
    /\ TotalRecords < MaxRecords
    /\ InsertBody("insert", key_int, key_int, record, start_node)
    /\ UNCHANGED <<nodes, successor, predecessor, finger>>

InsertTitle(movie_title, record, start_node) ==
    /\ TotalRecords < MaxRecords
    /\ InsertBody("insert_title", movie_title, chord_hash(movie_title, M),
                  record, start_node)
    /\ UNCHANGED <<nodes, successor, predecessor, finger>>

\* a variant of lookup: the title is used as the key, unhashed
LookupUnhashed(movie_title, start_node) ==
    /\ LET key_int == movie_title
           c == Call(Ring, key_int, start_node)
       IN IF c.node = None
          THEN last' = [Outcome("lookup", movie_title, start_node) EXCEPT
                           !.ok = FALSE, !.err = "AttributeError", !.calls = <<c>>]
          ELSE last' = [Outcome("lookup", movie_title, start_node) EXCEPT
                           !.node = c.node, !.hops = c.hops,
                           !.records = BTSearchKey(btree[c.node], key_int),
                           !.calls = <<c>>]
    /\ UNCHANGED <<nodes, successor, predecessor, finger, btree>>

\* lookup(movie_title, start_node)
Lookup(movie_title, start_node) ==
    /\ LET key_int == chord_hash(movie_title, M)
           c == Call(Ring, key_int, start_node)
       IN IF c.node = None
          THEN last' = [Outcome("lookup", movie_title, start_node) EXCEPT
                           !.ok = FALSE, !.err = "AttributeError", !.calls = <<c>>]
          ELSE last' = [Outcome("lookup", movie_title, start_node) EXCEPT
                           !.node = c.node, !.hops = c.hops,
                           !.records = BTSearchKey(btree[c.node], key_int),
                           !.calls = <<c>>]
    /\ UNCHANGED <<nodes, successor, predecessor, finger, btree>>

DeleteBody(op, arg, key_int, start_node) ==
    LET c == Call(Ring, key_int, start_node) IN
    IF c.node = None
    THEN /\ last' = [Outcome(op, arg, start_node) EXCEPT
                        !.ok = FALSE, !.err = "AttributeError", !.calls = <<c>>]
         /\ UNCHANGED btree
    ELSE /\ btree' = [btree EXCEPT ![c.node] = BTDelete(@, key_int)]
         /\ last' = [Outcome(op, arg, start_node) EXCEPT
                        !.node = c.node, !.hops = c.hops, !.calls = <<c>>]

DeleteKey(key_int, start_node) ==
    /\ DeleteBody("delete_key", key_int, key_int, start_node)
    /\ UNCHANGED <<nodes, successor, predecessor, finger>>

DeleteTitle(movie_title, start_node) ==
    /\ DeleteBody("delete_title", movie_title, chord_hash(movie_title, M),
                  start_node)
    /\ UNCHANGED <<nodes, successor, predecessor, finger>>

\* a variant of update_movie_field: a missing record is reported with zero hops
UpdateMovieFieldZeroCost(title, field, new_value, start_node) ==
    /\ LET key_int == chord_hash(title, M)
           c == Call(Ring, key_int, start_node)
           o == [Outcome("update_movie_field", title, start_node) EXCEPT
                    !.calls = <<c>>]
       IN IF c.node = None
          THEN /\ last' = [o EXCEPT !.ok = FALSE, !.err = "AttributeError"]
               /\ UNCHANGED btree
          ELSE LET records == BTSearchKey(btree[c.node], key_int) IN
               IF records = <<>>
               THEN /\ last' = [o EXCEPT !.ok = FALSE, !.node = c.node]
                    /\ UNCHANGED btree
               ELSE /\ btree' = [btree EXCEPT
                                    ![c.node][key_int][1][field] = new_value]
                    /\ last' = [o EXCEPT !.node = c.node, !.hops = c.hops,
                                         !.records = records]
    /\ UNCHANGED <<nodes, successor, predecessor, finger>>

\* update_movie_field(title, field, new_value, start_node)
UpdateMovieField(title, field, new_value, start_node) ==
    /\ LET key_int == chord_hash(title, M)
           c == Call(Ring, key_int, start_node)
           o == [Outcome("update_movie_field", title, start_node) EXCEPT
                    !.calls = <<c>>]
       IN IF c.node = None
          THEN /\ last' = [o EXCEPT !.ok = FALSE, !.err = "AttributeError"]
               /\ UNCHANGED btree
          ELSE LET records == BTSearchKey(btree[c.node], key_int) IN
               IF records = <<>>
               THEN /\ last' = [o EXCEPT !.ok = FALSE, !.node = c.node,
                                         !.hops = c.hops]
                    /\ UNCHANGED btree
               ELSE /\ btree' = [btree EXCEPT
                                    ![c.node][key_int][1][field] = new_value]
                    /\ last' = [o EXCEPT !.node = c.node, !.hops = c.hops,
                                         !.records = records]
    /\ UNCHANGED <<nodes, successor, predecessor, finger>>

\* ------------------------------------------------------------------------
\* Membership operations
\* ------------------------------------------------------------------------
\* a variant of the migration loop: a moved record is not deleted from succ
RECURSIVE RedistLoopKeepsSource(_, _, _, _, _)
RedistLoopKeepsSource(r, new_node, items, i, acc) ==
    IF i > Len(items) THEN acc
    ELSE LET key_int == items[i][1]
             record == items[i][2]
             pred == r.predecessor[new_node]
             succ == r.successor[new_node]
         IN IF InInterval(key_int, pred, new_node)
            THEN LET c == Call(r, key_int, succ) IN
                 RedistLoopKeepsSource(r, new_node, items, i + 1,
                    [btree |-> [acc.btree EXCEPT
                                   ![new_node] = BTInsert(@, record, key_int)],
                     hops  |-> acc.hops + c.hops,
                     moved |-> acc.moved + 1,
                     calls |-> Append(acc.calls, c)])
            ELSE RedistLoopKeepsSource(r, new_node, items, i + 1, acc)

\* a variant of the migration loop: the routing call of a moved key starts
\* at new_node instead of succ
RECURSIVE RedistLoopFromNew(_, _, _, _, _)
RedistLoopFromNew(r, new_node, items, i, acc) ==
    IF i > Len(items) THEN acc
    ELSE LET key_int == items[i][1]
             record == items[i][2]
             pred == r.predecessor[new_node]
             succ == r.successor[new_node]
         IN IF InInterval(key_int, pred, new_node)
            THEN LET c == Call(r, key_int, new_node) IN
                 RedistLoopFromNew(r, new_node, items, i + 1,
                    [btree |-> [acc.btree EXCEPT
                                   ![new_node] = BTInsert(@, record, key_int),
                                   ![succ] = BTDelete(@, key_int)],
                     hops  |-> acc.hops + c.hops,
                     moved |-> acc.moved + 1,
                     calls |-> Append(acc.calls, c)])
            ELSE RedistLoopFromNew(r, new_node, items, i + 1, acc)

\* the loop of _redistribute_keys over the items of succ, from index i
RECURSIVE RedistLoop(_, _, _, _, _)
RedistLoop(r, new_node, items, i, acc) ==
    IF i > Len(items) THEN acc
    ELSE LET key_int == items[i][1]
             record == items[i][2]
             pred == r.predecessor[new_node]
             succ == r.successor[new_node]
         IN IF InInterval(key_int, pred, new_node)
            THEN LET c == Call(r, key_int, succ) IN
                 RedistLoop(r, new_node, items, i + 1,
                    [btree |-> [acc.btree EXCEPT
                                   ![new_node] = BTInsert(@, record, key_int),
                                   ![succ] = BTDelete(@, key_int)],
                     hops  |-> acc.hops + c.hops,
                     moved |-> acc.moved + 1,
                     calls |-> Append(acc.calls, c)])
            ELSE RedistLoop(r, new_node, items, i + 1, acc)

\* a variant of _redistribute_keys: the items of the predecessor are
\* enumerated instead of those of the successor
RedistributeKeysOfPred(r, bts, new_node) ==
    RedistLoop(r, new_node, BTGetAllItems(bts[r.predecessor[new_node]]), 1,
               [btree |-> bts, hops |-> 0, moved |-> 0, calls |-> <<>>])

\* _redistribute_keys(new_node) on the ring r (links already updated, finger
\* tables not yet rebuilt) and the storages bts: the storages afterwards,
\* migrate_hops, moved and the find_successor calls made
RedistributeKeys(r, bts, new_node) ==
    RedistLoop(r, new_node, BTGetAllItems(bts[r.successor[new_node]]), 1,
               [btree |-> bts, hops |-> 0, moved |-> 0, calls |-> <<>>])

\* join_node(node_id, start_node); node_id is not the id of a member
JoinNode(node_id, start_node) ==
    /\ Len(nodes) < MaxNodes
    /\ node_id \notin Members
    /\ LET locate == IF nodes # <<>>
                     THEN <<Call(Ring, node_id,
                                 IF start_node = None THEN nodes[1] ELSE start_node)>>
                     ELSE <<>>
           ns == SortById(Append(nodes, node_id))
           links == UpdateLinks(ns)
           r == [nodes |-> ns,
                 successor |-> links.successor,
                 predecessor |-> links.predecessor,
                 finger |-> [v \in SeqToSet(ns) |->
                               IF v = node_id THEN [i \in 0 .. (M - 1) |-> None]
                               ELSE finger[v]],
                 m |-> M]
           bts == [v \in SeqToSet(ns) |->
                     IF v = node_id THEN EmptyTree ELSE btree[v]]
           mig == IF Len(ns) > 1
                  THEN RedistributeKeys(r, bts, node_id)
                  ELSE [btree |-> bts, hops |-> 0, moved |-> 0, calls |-> <<>>]
       IN /\ nodes' = ns
          /\ successor' = links.successor
          /\ predecessor' = links.predecessor
          /\ btree' = mig.btree
          /\ finger' = FixAllFingers(ns, M)
          /\ last' = [Outcome("join_node", node_id, start_node) EXCEPT
                         !.node = node_id,
                         !.hops = IF locate = <<>> THEN 0 ELSE locate[1].hops,
                         !.moved = mig.moved,
                         !.calls = locate \o mig.calls]

\* a variant of the leave loop: the items are counted but not inserted
RECURSIVE MoveAllCountsOnly(_, _, _, _)
MoveAllCountsOnly(bt, items, i, moved) ==
    IF i > Len(items) THEN [btree |-> bt, moved |-> moved]
    ELSE MoveAllCountsOnly(bt, items, i + 1, moved + 1)

\* a variant of the leave loop: the last item is left out
RECURSIVE MoveAllButLast(_, _, _, _)
MoveAllButLast(bt, items, i, moved) ==
    IF i >= Len(items) THEN [btree |-> bt, moved |-> moved]
    ELSE MoveAllButLast(BTInsert(bt, items[i][2], items[i][1]), items,
                        i + 1, moved + 1)

\* the loop of leave_node that inserts the leaving node's items into succ
RECURSIVE MoveAll(_, _, _, _)
MoveAll(bt, items, i, moved) ==
    IF i > Len(items) THEN [btree |-> bt, moved |-> moved]
    ELSE MoveAll(BTInsert(bt, items[i][2], items[i][1]), items, i + 1, moved + 1)

\* a variant of the removal: the list is left as it is
RemoveNothing(ns, node) == ns

\* list.remove(node)
Remove(ns, node) == SelectSeq(ns, LAMBDA v : v # node)

\* a variant of leave_node: an id that is no member is reported as a success
LeaveNodeNoCheck(node_id, start_node) ==
    IF node_id \notin Members
    THEN /\ last' = Outcome("leave_node", node_id, start_node)
         /\ UNCHANGED <<nodes, successor, predecessor, finger, btree>>
    ELSE IF Len(nodes) = 1
    THEN /\ nodes' = Remove(nodes, node_id)
         /\ successor' = <<>>
         /\ predecessor' = <<>>
         /\ finger' = <<>>
         /\ btree' = <<>>
         /\ last' = Outcome("leave_node", node_id, start_node)
    ELSE LET c == Call(Ring, node_id,
                       IF start_node = None THEN nodes[1] ELSE start_node)
             succ == successor[node_id]
             mv == MoveAll(btree[succ], BTGetAllItems(btree[node_id]), 1, 0)
             ns == Remove(nodes, node_id)
             links == UpdateLinks(ns)
         IN /\ nodes' = ns
            /\ successor' = links.successor
            /\ predecessor' = links.predecessor
            /\ finger' = FixAllFingers(ns, M)
            /\ btree' = [v \in SeqToSet(ns) |->
                           IF v = succ THEN mv.btree ELSE btree[v]]
            /\ last' = [Outcome("leave_node", node_id, start_node) EXCEPT
                           !.hops = c.hops, !.moved = mv.moved, !.calls = <<c>>]

\* leave_node(node_id, start_node)
LeaveNode(node_id, start_node) ==
    IF node_id \notin Members
    THEN /\ last' = [Outcome("leave_node", node_id, start_node) EXCEPT !.ok = FALSE]
         /\ UNCHANGED <<nodes, successor, predecessor, finger, btree>>
    ELSE IF Len(nodes) = 1
    THEN /\ nodes' = Remove(nodes, node_id)
         /\ successor' = <<>>
         /\ predecessor' = <<>>
         /\ finger' = <<>>
         /\ btree' = <<>>
         /\ last' = Outcome("leave_node", node_id, start_node)
    ELSE LET c == Call(Ring, node_id,
                       IF start_node = None THEN nodes[1] ELSE start_node)
             succ == successor[node_id]
             mv == MoveAll(btree[succ], BTGetAllItems(btree[node_id]), 1, 0)
             ns == Remove(nodes, node_id)
             links == UpdateLinks(ns)
         IN /\ nodes' = ns
            /\ successor' = links.successor
            /\ predecessor' = links.predecessor
            /\ finger' = FixAllFingers(ns, M)
            /\ btree' = [v \in SeqToSet(ns) |->
                           IF v = succ THEN mv.btree ELSE btree[v]]
            /\ last' = [Outcome("leave_node", node_id, start_node) EXCEPT
                           !.hops = c.hops, !.moved = mv.moved, !.calls = <<c>>]

\* ------------------------------------------------------------------------
\* Specifications
\* ------------------------------------------------------------------------
\* Spec: any sequence of public calls on one ring.  Nodes join with an id of
\* NodeIds; keys are the hashes of the names and the raw keys of RawKeys, so
\* that a key falls below the smallest id (0), between two ids (4), on an id
\* (5) and above the largest id (7).
NodeIds == {1, 5, 6}
RawKeys == {0, 4}

Next ==
    \/ \E key \in RawKeys, rec \in RecordSet, s \in StartNodes : Insert(key, rec, s)
    \/ \E t \in Names, rec \in RecordSet, s \in StartNodes : InsertTitle(t, rec, s)
    \/ \E t \in Names, s \in StartNodes : Lookup(t, s)
    \/ \E key \in RawKeys, s \in StartNodes : DeleteKey(key, s)
    \/ \E t \in Names, s \in StartNodes : DeleteTitle(t, s)
    \/ \E t \in Names, f \in Fields, v \in Values, s \in StartNodes :
          UpdateMovieField(t, f, v, s)
    \/ \E id \in NodeIds, s \in StartNodes : JoinNode(id, s)
    \/ \E id \in NodeIds, s \in StartNodes : LeaveNode(id, s)

Spec == Init /\ [][Next]_vars

\* SpecRing: joins, leaves and routing calls only, over every id and every
\* key of the identifier space.
NextRing ==
    \/ \E key \in Ids, s \in StartNodes : Route(key, s)
    \/ \E id \in Ids, s \in StartNodes : JoinNode(id, s)
    \/ \E id \in Ids, s \in StartNodes : LeaveNode(id, s)

SpecRing == Init /\ [][NextRing]_vars

\* SpecCorrupt: joins, leaves and routing calls on a ring whose finger
\* tables a caller overwrites: any entry may be set to None or to any member,
\* at most MaxCorrupt entries differing from the rebuilt tables at a time.
MaxCorrupt == 2

CorruptedEntries ==
    {<<v, i>> \in Members \X (0 .. (M - 1)) :
        finger[v][i] # InitFingerTable(nodes, M, v)[i]}

\* node.finger[i] = target, written from outside the ring's own operations
CorruptFinger(v, i, target) ==
    /\ v \in Members
    /\ finger[v][i] # target
    /\ finger' = [finger EXCEPT ![v][i] = target]
    /\ Cardinality({<<w, j>> \in Members \X (0 .. (M - 1)) :
                       finger'[w][j] # InitFingerTable(nodes, M, w)[j]}) <= MaxCorrupt
    /\ last' = Outcome("corrupt", v, None)
    /\ UNCHANGED <<nodes, successor, predecessor, btree>>

NextCorrupt ==
    \/ \E key \in Ids, s \in StartNodes : Route(key, s)
    \/ \E id \in NodeIds, s \in StartNodes : JoinNode(id, s)
    \/ \E id \in NodeIds, s \in StartNodes : LeaveNode(id, s)
    \/ \E v \in Members, i \in 0 .. (M - 1), t \in Members \cup {None} :
          CorruptFinger(v, i, t)

SpecCorrupt == Init /\ [][NextCorrupt]_vars

\* SpecInterval: _in_interval applied to every start, end and key of the
\* identifier space; last holds the arguments and the result of the call.
InIntervalCall(key, start, end) ==
    /\ last' = [op |-> "_in_interval", key |-> key, start |-> start,
                end |-> end, result |-> InInterval(key, start, end)]
    /\ UNCHANGED <<nodes, successor, predecessor, finger, btree>>

NextInterval == \E key \in Ids, start \in Ids, end \in Ids :
                    InIntervalCall(key, start, end)

SpecInterval == Init /\ [][NextInterval]_vars

\* SpecFinger: closest_preceding_finger called on every member and every key
\* of the identifier space, on rings built by joins and leaves whose finger
\* entries a caller may overwrite as in SpecCorrupt; last holds the key
\* (arg), the node the scan ran on (start) and the node returned.
CpfCall(node, key) ==
    /\ node \in Members
    /\ last' = [Outcome("closest_preceding_finger", key, node) EXCEPT
                   !.node = ClosestPrecedingFinger(Ring, node, key)]
    /\ UNCHANGED <<nodes, successor, predecessor, finger, btree>>

NextFinger ==
    \/ \E v \in Members, key \in Ids : CpfCall(v, key)
    \/ \E id \in NodeIds, s \in StartNodes : JoinNode(id, s)
    \/ \E id \in NodeIds, s \in StartNodes : LeaveNode(id, s)
    \/ \E v \in Members, i \in 0 .. (M - 1), t \in Members \cup {None} :
          CorruptFinger(v, i, t)

SpecFinger == Init /\ [][NextFinger]_vars

\* SpecWide: routing on rings larger than MaxNodes.  The ring starts with
\* every id of the identifier space joined (2^M join_node calls on an empty
\* ring, nothing stored) and shrinks by leaves, so that every non-empty set
\* of ids is a ring of the specification; an id that left may join again
\* while the ring is below MaxNodes.
\* the ids of S in ascending order
RECURSIVE Ascending(_)
Ascending(S) ==
    IF S = {} THEN <<>>
    ELSE LET v == CHOOSE x \in S : \A y \in S : x <= y
         IN <<v>> \o Ascending(S \ {v})

InitWide ==
    LET top == 2^M - 1
        before == Ascending(Ids \ {top})
        locate == Call([nodes |-> before,
                        successor |-> UpdateLinks(before).successor,
                        predecessor |-> UpdateLinks(before).predecessor,
                        finger |-> FixAllFingers(before, M),
                        m |-> M], top, before[1])
    IN /\ nodes = Ascending(Ids)
       /\ successor = UpdateLinks(Ascending(Ids)).successor
       /\ predecessor = UpdateLinks(Ascending(Ids)).predecessor
       /\ finger = FixAllFingers(Ascending(Ids), M)
       /\ btree = [v \in Ids |-> EmptyTree]
       /\ last = [Outcome("join_node", top, None) EXCEPT
                     !.node = top, !.hops = locate.hops, !.calls = <<locate>>]

NextWide ==
    \/ \E key \in Ids, s \in StartNodes : Route(key, s)
    \/ \E id \in Ids, s \in StartNodes : LeaveNode(id, s)
    \/ \E id \in Ids, s \in StartNodes : JoinNode(id, s)

SpecWide == InitWide /\ [][NextWide]_vars

\* ------------------------------------------------------------------------
\* Reference notions the claims are stated with
\* ------------------------------------------------------------------------
\* the first node whose id is >= key in circular order, wrapping to the
\* smallest id
Owner(S, key) ==
    IF \E v \in S : v >= key
    THEN CHOOSE v \in S : v >= key /\ \A w \in S : w >= key => v <= w
    ELSE CHOOSE v \in S : \A w \in S : v <= w

\* the nodes whose storage holds a record under key
Holders(bts, key) == {v \in DOMAIN bts : bts[v][key] # <<>>}

\* the records held under key anywhere in the ring
Stored(bts, key) ==
    IF Holders(bts, key) = {} THEN <<>>
    ELSE bts[CHOOSE v \in Holders(bts, key) : TRUE][key]

\* what a lookup of key from start_node finds on the non-empty ring r with
\* storages bts: the records under key at the node find_successor returns
LookupKey(r, bts, key, start_node) ==
    BTSearchKey(bts[FindSuccessor(r, key, start_node).node], key)

\* the node a routing call starts at
StartOf(ns, start_node) == IF start_node = None THEN ns[1] ELSE start_node

\* ns is strictly ascending and succ / pred are the neighbours by index
LinksOK(ns, succ, pred) ==
    /\ \A i \in 1 .. Len(ns) - 1 : ns[i] < ns[i + 1]
    /\ DOMAIN succ = SeqToSet(ns)
    /\ DOMAIN pred = SeqToSet(ns)
    /\ \A i \in 1 .. Len(ns) :
          /\ succ[ns[i]] = ns[IF i = Len(ns) THEN 1 ELSE i + 1]
          /\ pred[ns[i]] = ns[IF i = 1 THEN Len(ns) ELSE i - 1]

\* ------------------------------------------------------------------------
\* Claims
\* ------------------------------------------------------------------------
\* C1: ownership invariant.  After any sequence of join_node, leave_node,
\* insert and delete_key calls every stored key is held by exactly one node,
\* and that node is the one find_successor(key) returns from any start node:
\* the first node with id >= key in circular order.
OwnershipInvariant ==
    \A k \in Ids : \A v \in Holders(btree, k) :
        /\ Holders(btree, k) = {v}
        /\ v = Owner(Members, k)
        /\ \A s \in StartNodes : FindSuccessor(Ring, k, s).node = v

\* a join into a two-node ring has just moved a record and left another one
\* where it was
OwnershipWitness ==
    /\ last.op = "join_node"
    /\ last.moved >= 1
    /\ Len(nodes) = 3
    /\ TotalRecords = 2
    /\ Cardinality({v \in Members : Count(btree[v]) > 0}) = 2

\* the ring of the design's example scenario: m = 8, nodes 10, 36, 59, 101
ExampleNodes == <<10, 36, 59, 101>>
ExampleRing ==
    [nodes |-> ExampleNodes,
     successor |-> UpdateLinks(ExampleNodes).successor,
     predecessor |-> UpdateLinks(ExampleNodes).predecessor,
     finger |-> FixAllFingers(ExampleNodes, 8),
     m |-> 8]

\* C2: in every ring reachable by joins and leaves, find_successor(key, start)
\* returns, for every key and every member start node (or the default one),
\* the node the linear scan returns: the smallest id >= key, else the smallest
\* id.  In the example ring key 40 resolves to node 59 and key 200 to node 10.
RoutingMatchesLinear ==
    /\ nodes # <<>> =>
          \A key \in Ids : \A s \in StartNodes :
              /\ FindSuccessor(Ring, key, s).node = FindSuccessorLinear(nodes, key)
              /\ FindSuccessor(Ring, key, s).node = Owner(Members, key)
    /\ \A s \in SeqToSet(ExampleNodes) :
          /\ FindSuccessor(ExampleRing, 40, s).node = 59
          /\ FindSuccessor(ExampleRing, 200, s).node = 10

\* a routing call on a three-node ring that took more than one hop and
\* wrapped to the smallest id
RoutingWitness ==
    /\ last.op = "find_successor"
    /\ Len(nodes) = 3
    /\ last.hops >= 2
    /\ last.arg > nodes[3]
    /\ last.node = nodes[1]

\* C3: link invariant.  The membership list is strictly ascending and every
\* node's successor / predecessor is its neighbour by index, after every
\* join_node and leave_node and on the ring each find_successor call runs on,
\* the calls made inside join_node (locate, migration) and leave_node included.
LinkInvariant ==
    /\ LinksOK(nodes, successor, predecessor)
    /\ \A i \in 1 .. Len(last.calls) :
          LinksOK(last.calls[i].ring.nodes, last.calls[i].ring.successor,
                  last.calls[i].ring.predecessor)

\* a join that became the smallest id of a three-node ring and routed both to
\* locate its place and to migrate a record
LinkWitness ==
    /\ last.op = "join_node"
    /\ Len(nodes) = 3
    /\ last.arg = nodes[1]
    /\ Len(last.calls) >= 2
    /\ last.moved >= 1

\* the hop budget of the claim: max(4, 4n) + 1 for a ring of n nodes
HopBudget(n) == (IF 4 * n > 4 THEN 4 * n ELSE 4) + 1

\* C4: termination bound.  On a ring of n >= 1 nodes with correct successor
\* links and any finger-table contents (entries empty or pointing at any
\* member), find_successor(key, start) returns a member with at most
\* max(4, 4n) + 1 hops, and a result produced after the hop budget was
\* exceeded is the linear-scan successor of key.
TerminationBound ==
    (nodes # <<>> /\ LinksOK(nodes, successor, predecessor)) =>
        \A key \in Ids : \A s \in StartNodes :
            LET res == FindSuccessor(Ring, key, s) IN
            /\ res.node \in Members
            /\ res.hops <= HopBudget(Len(nodes))
            /\ res.fallback => res.node = Owner(Members, key)

\* a routing call on a three-node ring with two corrupted finger entries,
\* one of them emptied and one pointing at the node that holds it
TerminationWitness ==
    /\ last.op = "find_successor"
    /\ Len(nodes) = 3
    /\ Cardinality(CorruptedEntries) = 2
    /\ \E v \in Members, i \in 0 .. (M - 1) : finger[v][i] = None
    /\ \E v \in Members, i \in 0 .. (M - 1) :
          finger[v][i] = v /\ <<v, i>> \in CorruptedEntries
    /\ last.hops >= 2

\* C5: round trip.  On a ring with at least one node, a lookup(name) that
\* directly follows insert_title(name, r), from any start nodes, returns a
\* record list that contains r.
RoundTrip ==
    [][(/\ last.op = "insert_title"
        /\ nodes # <<>>
        /\ last'.op = "lookup"
        /\ last'.arg = last.arg)
       => (/\ last'.err = ""
           /\ \E i \in 1 .. Len(last'.records) : last'.records[i] = last.rec)]_vars

\* a lookup from a given start node on a three-node ring that returned the
\* two records of two colliding names
RoundTripWitness ==
    /\ last.op = "lookup"
    /\ Len(nodes) = 3
    /\ last.start # None
    /\ Len(last.records) = 2
    /\ last.records[1] # last.records[2]

\* C6: join preserves data.  After join_node(id) with a fresh id into a ring
\* with at least one node, a lookup of every key from every start node returns
\* the records stored under it before, and the number of records in the ring
\* is unchanged.
JoinPreservesData ==
    [][(last'.op = "join_node" /\ nodes # <<>>)
       => (/\ TotalOver(btree', Members') = TotalRecords
           /\ \A k \in Ids : \A s \in {None} \cup Members' :
                 LookupKey(Ring', btree', k, s) = Stored(btree, k))]_vars

\* a join that took both records of the ring over from its successor
JoinWitness ==
    /\ last.op = "join_node"
    /\ last.moved = 2
    /\ Len(nodes) >= 2
    /\ Count(btree[last.arg]) = 2

\* C7, as claimed: a successful leave_node of any one ring member loses no
\* record: a lookup of every stored key afterwards succeeds and returns its
\* records.
LeavePreservesDataAlways ==
    [][(last'.op = "leave_node" /\ last'.ok)
       => \A k \in Ids : Stored(btree, k) # <<>> =>
              /\ nodes' # <<>>
              /\ \A s \in {None} \cup Members' :
                    LookupKey(Ring', btree', k, s) = Stored(btree, k)]_vars

\* C7, amended: a successful leave_node of a member of a ring with at least
\* two nodes loses no record: a lookup of every stored key afterwards returns
\* its records, and the number of records in the ring is unchanged.
LeavePreservesData ==
    [][(last'.op = "leave_node" /\ last'.ok /\ Len(nodes) >= 2)
       => (/\ TotalOver(btree', Members') = TotalRecords
           /\ \A k \in Ids : Stored(btree, k) # <<>> =>
                 /\ nodes' # <<>>
                 /\ \A s \in {None} \cup Members' :
                       LookupKey(Ring', btree', k, s) = Stored(btree, k))]_vars

\* a leave that handed records over to a successor which held one already
LeaveWitness ==
    /\ last.op = "leave_node"
    /\ last.ok
    /\ last.moved >= 1
    /\ nodes # <<>>
    /\ TotalRecords > last.moved

\* C8: on a ring with no nodes, find_successor and every data operation
\* return a no-node / zero-hop result and raise nothing.
EmptyRingResult ==
    (/\ nodes = <<>>
     /\ last.op \in {"find_successor", "insert", "insert_title", "lookup",
                     "delete_key", "delete_title", "update_movie_field"})
    => (last.err = "" /\ last.node = None /\ last.hops = 0)

\* C9, as claimed: update_movie_field for a name under whose key nothing is
\* stored returns ok = false with hop count 0, on every non-empty ring and
\* from every start node, and changes no stored record.
UpdateNotFoundZeroCost ==
    [][(/\ last'.op = "update_movie_field"
        /\ nodes # <<>>
        /\ Stored(btree, chord_hash(last'.arg, M)) = <<>>)
       => (~last'.ok /\ last'.hops = 0 /\ btree' = btree)]_vars

\* C9, amended: update_movie_field for a name under whose key nothing is
\* stored returns ok = false together with the hop count of its routing
\* lookup, which is 0 exactly when the key is the id of the start node, and
\* changes no stored record.
UpdateNotFound ==
    [][(/\ last'.op = "update_movie_field"
        /\ nodes # <<>>
        /\ Stored(btree, chord_hash(last'.arg, M)) = <<>>)
       => (/\ ~last'.ok
           /\ last'.err = ""
           /\ last'.hops >= 0
           /\ last'.hops = 0 <=>
                 chord_hash(last'.arg, M) = StartOf(nodes, last'.start)
           /\ btree' = btree)]_vars

\* a failed update on a three-node ring that holds records under another
\* key and took two hops or more to find the owner
UpdateNotFoundWitness ==
    /\ last.op = "update_movie_field"
    /\ ~last.ok
    /\ last.err = ""
    /\ Len(nodes) = 3
    /\ TotalRecords >= 1
    /\ last.hops >= 2

\* C10: leave_node(id) with an id that is no ring member (the empty ring
\* included) returns (False, 0, 0) and leaves the membership list, the links,
\* the finger tables and every node's storage unchanged.
LeaveNotFound ==
    [][(last'.op = "leave_node" /\ last'.arg \notin Members)
       => (/\ ~last'.ok
           /\ last'.hops = 0
           /\ last'.moved = 0
           /\ UNCHANGED <<nodes, successor, predecessor, finger, btree>>)]_vars

\* a refused leave on a ring of two nodes that holds a record
LeaveNotFoundWitness ==
    /\ last.op = "leave_node"
    /\ ~last.ok
    /\ last.arg \notin Members
    /\ Len(nodes) = 2
    /\ TotalRecords >= 1

\* key lies on the circular arc (start, end] of the identifier space of
\* width m; the arc from a point to itself is the whole ring
CircularArc(key, start, end, m) ==
    IF start = end THEN TRUE
    ELSE LET d == (key - start + 2^m) % (2^m)
             w == (end - start + 2^m) % (2^m)
         IN 1 <= d /\ d <= w

\* C11: interval correctness.  For all start, end, key in [0, 2^m),
\* _in_interval(key, start, end) is true exactly when key lies on the circular
\* arc (start, end]: for start # end when
\* 1 <= (key - start) mod 2^m <= (end - start) mod 2^m, for start = end always.
IntervalCorrect ==
    last.op = "_in_interval" =>
        (last.result <=> CircularArc(last.key, last.start, last.end, M))

\* a call on a wrapping arc that holds a key below its end
IntervalWitness ==
    /\ last.op = "_in_interval"
    /\ last.start > last.end
    /\ last.key < last.end
    /\ last.result

\* C12: finger-table invariant.  After every join_node and every leave_node
\* that leaves the ring non-empty, finger[i] of every member v is the
\* linear-scan successor of (v + 2^i) mod 2^m in the current membership; no
\* entry is empty or refers to a node that has left.
FingerInvariant ==
    /\ DOMAIN finger = Members
    /\ \A v \in Members : \A i \in 0 .. (M - 1) :
          /\ finger[v][i] \in Members
          /\ finger[v][i] = Owner(Members, (v + 2^i) % (2^M))
          /\ finger[v][i] = FindSuccessorLinear(nodes, (v + 2^i) % (2^M))

\* a leave from a three-node ring after which a finger of the largest id
\* wraps to the smallest id and a finger of some node points at itself
FingerWitness ==
    /\ last.op = "leave_node"
    /\ last.ok
    /\ Len(nodes) = 2
    /\ \E i \in 0 .. (M - 1) : finger[nodes[2]][i] = nodes[1]
    /\ \E v \in Members, i \in 0 .. (M - 1) : finger[v][i] = v

\* the number of records bt holds under the keys of K
RECURSIVE CountIn(_, _)
CountIn(bt, K) ==
    IF K = {} THEN 0
    ELSE LET k == CHOOSE x \in K : TRUE
         IN Len(bt[k]) + CountIn(bt, K \ {k})

\* C13: join migration.  After join_node(id) into a non-empty ring, with pred
\* and succ the new node's neighbours, the new node holds exactly the records
\* succ held under the keys of the arc (pred, id], succ keeps exactly its
\* other records, movedCount is the number of records moved, and the storage
\* of every other node is unchanged.
JoinMigration ==
    [][(last'.op = "join_node" /\ nodes # <<>>)
       => LET id == last'.arg
              succ == successor'[id]
              pred == predecessor'[id]
              arc == {k \in Ids : CircularArc(k, pred, id, M)}
          IN /\ succ \in Members /\ pred \in Members
             /\ \A k \in Ids :
                   /\ btree'[id][k] = IF k \in arc THEN btree[succ][k] ELSE <<>>
                   /\ btree'[succ][k] = IF k \in arc THEN <<>> ELSE btree[succ][k]
             /\ last'.moved = CountIn(btree[succ], arc)
             /\ \A v \in Members \ {succ} : btree'[v] = btree[v]]_vars

\* a join below the smallest id of a two-node ring that took one record
\* from its successor, across the wrap, and left it another
JoinMigrationWitness ==
    /\ last.op = "join_node"
    /\ Len(nodes) = 3
    /\ last.arg = nodes[1]
    /\ last.moved = 1
    /\ Count(btree[nodes[1]]) = 1
    /\ Count(btree[nodes[2]]) = 1
    /\ Count(btree[nodes[3]]) = 0

\* C14: leave migration.  When leave_node(id) removes a member of a ring of
\* two nodes or more, the former successor afterwards stores its own records
\* followed by every record of the leaving node, movedCount is the number of
\* records the leaving node held, the node is off the membership list, and the
\* storage of every other remaining node is unchanged.
LeaveMigration ==
    [][(/\ last'.op = "leave_node"
        /\ last'.arg \in Members
        /\ Len(nodes) >= 2)
       => LET id == last'.arg
              succ == successor[id]
          IN /\ last'.ok
             /\ SeqToSet(nodes') = Members \ {id}
             /\ Len(nodes') = Len(nodes) - 1
             /\ \A k \in Ids : btree'[succ][k] = btree[succ][k] \o btree[id][k]
             /\ last'.moved = Count(btree[id])
             /\ \A v \in Members \ {id, succ} : btree'[v] = btree[v]]_vars

\* a leave of a node that held two records, on a ring of two nodes
LeaveMigrationWitness ==
    /\ last.op = "leave_node"
    /\ last.ok
    /\ last.moved = 2
    /\ Len(nodes) = 1
    /\ Count(btree[nodes[1]]) = 2

\* the indices of the non-empty fingers of node v whose id x satisfies
\* InArc(x)
Qualifying(v, InArc(_)) ==
    {i \in 0 .. (M - 1) : finger[v][i] # None /\ InArc(finger[v][i])}

\* the finger of the highest index among Q, or v itself when Q is empty
HighestOf(v, Q) ==
    IF Q = {} THEN v
    ELSE finger[v][CHOOSE i \in Q : \A j \in Q : j <= i]

\* C15 as stated: closest_preceding_finger(current, key) returns the finger
\* of the highest index whose id lies in the circular open interval
\* (current, key), both ends excluded, so never a node whose id equals key,
\* and current itself when no finger qualifies.
ClosestPrecedingOpen ==
    last.op = "closest_preceding_finger" =>
        LET v == last.start
            key == last.arg
            InOpen(x) == CircularArc(x, v, key, M) /\ x # key
        IN /\ last.node = HighestOf(v, Qualifying(v, InOpen))
           /\ (v # key => last.node # key)

\* C15, amended: closest_preceding_finger(current, key) returns the non-empty
\* finger of the highest index whose id lies on the circular arc
\* (current, key], the key end included, and current itself when no finger
\* qualifies.
ClosestPrecedingHalfOpen ==
    last.op = "closest_preceding_finger" =>
        LET v == last.start
            key == last.arg
            InHalfOpen(x) == CircularArc(x, v, key, M)
        IN last.node = HighestOf(v, Qualifying(v, InHalfOpen))

\* a scan on a three-node ring that returned a finger whose id is the key,
\* passing over a finger of a lower index that lies strictly before the key
ClosestPrecedingWitness ==
    /\ last.op = "closest_preceding_finger"
    /\ Len(nodes) = 3
    /\ last.start # last.arg
    /\ last.node = last.arg
    /\ \E i \in 0 .. (M - 1) :
          /\ finger[last.start][i] \notin {None, last.arg, last.start}
          /\ CircularArc(finger[last.start][i], last.start, last.arg, M)

\* the nodes on which the loop of find_successor, from node curr with hops
\* hops so far, invokes closest_preceding_finger
RECURSIVE Scanned(_, _, _, _)
Scanned(r, key, curr, hops) ==
    IF key = curr THEN {}
    ELSE LET succ == r.successor[curr] IN
         IF InInterval(key, curr, succ) THEN {}
         ELSE LET cpf == ClosestPrecedingFinger(r, curr, key)
                  nxt == IF cpf = None \/ cpf = curr THEN succ ELSE cpf
              IN {curr} \cup (IF hops + 1 > MaxSteps(r.nodes) THEN {}
                              ELSE Scanned(r, key, nxt, hops + 1))

\* C16: migration routing during join.  Every find_successor(key, start =
\* succ) call made inside _redistribute_keys runs on links that include the
\* new node and on finger tables not yet rebuilt, the new node's all empty;
\* it returns the new node, never scans the new node's empty table nor
\* takes an empty finger as the next node, and never reaches the linear-scan
\* fallback.
MigrationRouting ==
    (last.op = "join_node" /\ Len(last.calls) >= 2) =>
        \A n \in 2 .. Len(last.calls) :
            LET c == last.calls[n]
                id == last.arg
                path == Scanned(c.ring, c.key, c.start, 0)
            IN /\ c.start = c.ring.successor[id]
               /\ c.ring.successor = successor
               /\ c.ring.predecessor = predecessor
               /\ \A i \in 0 .. (M - 1) : c.ring.finger[id][i] = None
               /\ c.node = id
               /\ ~c.fallback
               /\ id \notin path
               /\ \A v \in path : ClosestPrecedingFinger(c.ring, v, c.key) # None

\* a join into a two-node ring whose migration call went from the successor
\* over a stale finger to the predecessor and from there to the new node
MigrationRoutingWitness ==
    /\ last.op = "join_node"
    /\ Len(nodes) = 3
    /\ Len(last.calls) >= 2
    /\ last.calls[2].hops = 2
    /\ last.calls[2].node = last.arg
    /\ Scanned(last.calls[2].ring, last.calls[2].key, last.calls[2].start, 0)
          = {last.calls[2].start}

\* C17: hop accounting.  On a non-empty ring find_successor(key, s) reports
\* 0 hops if and only if key is the id of s, and then returns s; when key is
\* not the id of s and lies on the arc (s, s.successor] it returns
\* s.successor with exactly 1 hop.
HopAccounting ==
    nodes # <<>> =>
        \A key \in Ids, s \in StartNodes :
            LET st == StartOf(nodes, s)
                res == FindSuccessor(Ring, key, s)
            IN /\ (res.hops = 0) <=> (key = st)
               /\ key = st => res.node = st
               /\ (key # st /\ CircularArc(key, st, successor[st], M))
                     => (res.node = successor[st] /\ res.hops = 1)

\* a call from the largest id of a three-node ring for a key below the
\* smallest id: one hop, across the wrap, to the successor
HopAccountingWitness ==
    /\ last.op = "find_successor"
    /\ Len(nodes) = 3
    /\ last.start = nodes[3]
    /\ last.arg < nodes[1]
    /\ last.node = nodes[1]
    /\ last.hops = 1

\* C18: last-node leave.  leave_node(id) on a ring whose only member has
\* that id returns (True, 0, 0), makes no routing call and moves nothing, and
\* leaves the membership list empty, so that a find_successor made next
\* returns (None, 0).
LastNodeLeave ==
    [][(/\ last'.op = "leave_node"
        /\ Len(nodes) = 1
        /\ last'.arg = nodes[1])
       => /\ last'.ok
          /\ last'.hops = 0
          /\ last'.moved = 0
          /\ last'.calls = <<>>
          /\ nodes' = <<>>
          /\ btree' = <<>>
          /\ \A key \in Ids, s \in {None, last'.arg} :
                LET res == FindSuccessor(Ring', key, s)
                IN res.node = None /\ res.hops = 0 /\ ~res.fallback]_vars

\* the only member has left: the ring is empty after a successful leave
LastNodeLeaveWitness ==
    /\ last.op = "leave_node"
    /\ last.ok
    /\ last.calls = <<>>
    /\ nodes = <<>>

\* the nodes the loop of find_successor takes as curr, in order, from node
\* curr with hops hops so far
RECURSIVE Path(_, _, _, _)
Path(r, key, curr, hops) ==
    IF key = curr THEN <<curr>>
    ELSE LET succ == r.successor[curr] IN
         IF InInterval(key, curr, succ) THEN <<curr>>
         ELSE LET cpf == ClosestPrecedingFinger(r, curr, key)
                  nxt == IF cpf = None \/ cpf = curr THEN succ ELSE cpf
              IN IF hops + 1 > MaxSteps(r.nodes) THEN <<curr>>
                 ELSE <<curr>> \o Path(r, key, nxt, hops + 1)

\* the clockwise distance from a to b on the identifier circle
Dist(a, b) == (b - a + 2^M) % (2^M)

\* C19: routing progress.  Whenever the successor links are correct and
\* every finger entry is empty or a ring member (rebuilt, stale or
\* arbitrary), each routing step moves strictly closer to key on the circle,
\* so find_successor(key, start) reports at most n hops, n the number of
\* nodes, and the linear-scan fallback is never executed.
RoutingProgress ==
    (/\ nodes # <<>>
     /\ LinksOK(nodes, successor, predecessor)
     /\ \A v \in Members, i \in 0 .. (M - 1) : finger[v][i] \in Members \cup {None})
    => \A key \in Ids, s \in StartNodes :
          LET res == FindSuccessor(Ring, key, s)
              path == Path(Ring, key, StartOf(nodes, s), 0)
          IN /\ \A i \in 1 .. Len(path) - 1 :
                   Dist(path[i + 1], key) < Dist(path[i], key)
             /\ res.hops <= Len(nodes)
             /\ ~res.fallback

\* a call on a three-node ring with overwritten fingers that walked all three
\* nodes, one successor at a time, and reported three hops
RoutingProgressWitness ==
    /\ last.op = "find_successor"
    /\ Len(nodes) = 3
    /\ last.hops = 3
    /\ Len(Path(Ring, last.arg, StartOf(nodes, last.start), 0)) = 3
    /\ CorruptedEntries # {}

\* the index of the finger closest_preceding_finger returns, scanning from
\* index i down; None when no finger qualifies and the node itself is returned
RECURSIVE FingerIndex(_, _, _, _)
FingerIndex(ft, node, key, i) ==
    IF i < 0 THEN None
    ELSE IF ft[i] # None /\ InInterval(ft[i], node, key) THEN i
    ELSE FingerIndex(ft, node, key, i - 1)

\* the finger indices chosen, in order, by the steps of the loop of
\* find_successor from node curr with hops hops so far
RECURSIVE Indices(_, _, _, _)
Indices(r, key, curr, hops) ==
    IF key = curr THEN <<>>
    ELSE LET succ == r.successor[curr] IN
         IF InInterval(key, curr, succ) THEN <<>>
         ELSE LET cpf == ClosestPrecedingFinger(r, curr, key)
                  nxt == IF cpf = None \/ cpf = curr THEN succ ELSE cpf
                  ix == FingerIndex(r.finger[curr], curr, key, r.m - 1)
              IN <<ix>> \o (IF hops + 1 > MaxSteps(r.nodes) THEN <<>>
                            ELSE Indices(r, key, nxt, hops + 1))

\* C20: logarithmic routing.  In every ring reached by joins and leaves, all
\* finger tables rebuilt, for every key and every member start node the
\* finger index chosen by closest_preceding_finger strictly decreases from
\* one routing step to the next, so find_successor reports at most m + 1
\* hops whatever the number of nodes.
LogarithmicRouting ==
    nodes # <<>> =>
        \A key \in Ids, s \in Members :
            LET res == FindSuccessor(Ring, key, s)
                ix == Indices(Ring, key, s, 0)
            IN /\ \A i \in 1 .. Len(ix) : ix[i] \in 0 .. (M - 1)
               /\ \A i \in 1 .. Len(ix) - 1 : ix[i + 1] < ix[i]
               /\ res.hops <= M + 1
               /\ ~res.fallback

\* a call on a ring of more than m + 1 nodes that took two fingers, of
\* decreasing index, and a final hop to the successor
LogarithmicRoutingWitness ==
    /\ last.op = "find_successor"
    /\ Len(nodes) > M + 1
    /\ last.start # None
    /\ last.hops = 3
    /\ Len(Indices(Ring, last.arg, last.start, 0)) = 2

====
